---- MODULE Spec2Model ----
(***************************************************************************)
(* A model of the probe / decision-engine core of the repository:          *)
(*   src/src/python_runtime/probe.py   (Probed, the interception proxy)    *)
(*   src/src/ai_runtime/runtime.py     (AIRuntime, the decision engine)    *)
(*   src/src/main.py                   (the end-to-end scenario)           *)
(* The oracle (agent.llm_call), the instruction file user_query.md, the    *)
(* audit log report.md and the debugger pause are the environment.         *)
(***************************************************************************)
EXTENDS Integers, Sequences, FiniteSets, TLC

(***************************************************************************)
(* Bounds of the model.                                                    *)
(***************************************************************************)
MaxRoots == 2
MaxNodes == 3
MaxOps == 3
MaxQuietOps == 4
MaxLen == 2
MaxEdits == 1
MaxDeviations == 1

Procs == {1, 2}

(***************************************************************************)
(* Values.  A result handed to a caller is a record [t, v]: t is the kind  *)
(* (or the exception's name when the handler raised), v a sequence of      *)
(* integers carrying the payload.                                          *)
(***************************************************************************)
NoneVal == [t |-> "none", v |-> <<>>]
IntVal(k) == [t |-> "int", v |-> <<k>>]
StrVal(l) == [t |-> "str", v |-> l]
RefVal(r) == [t |-> "ref", v |-> <<r>>]
Exc(name) == [t |-> name, v |-> <<>>]
Unset == [t |-> "unset", v |-> <<>>]
\* a variant that leaves the example None
PlaceholderNone == NoneVal
\* line 80: result_example = "No example provided"
Placeholder == [t |-> "No example provided", v |-> <<>>]

ExcNames == {"TypeError", "IndexError", "AttributeError", "OracleError",
             "JSONDecodeError", "OSError"}
IsExc(x) == x.t \in ExcNames

\* contents user_query.md may hold; the file is <<>> when absent, <<c>> otherwise
Contents == {"", "A"}
Files == {<<>>} \cup {<<c>> : c \in Contents}

\* values the oracle may fabricate as a substitute (JSON arrays)
SubstValues == {<<7>>, <<8>>}

\* the default argument of Probed.__init__ and what a root may be built with
StopModes == {"True", "None"}

\* the lists a root may wrap, and the arguments a driver passes
InitialLists == {<<1>>}
Names == {"append", "__len__", "__self__"}
ArgsOf(name) == IF name = "append" THEN {<<2>>} ELSE {<<>>}

RESERVED_FIELDS == {"_obj", "_prompt", "_prefix", "_entry", "_runtime",
                    "_stop_after", "_getattr_impl", "RESERVED_FIELDS"}

(***************************************************************************)
(* hashlib.md5(...).hexdigest(): a digest is never the empty string and    *)
(* distinct inputs give distinct digests.                                  *)
(***************************************************************************)
md5(x) == <<"md5", x>>

(***************************************************************************)
(* The wrapped values.  obj is what a node wraps: the list itself          *)
(* (kind "list") or a bound method of it (kind "method").  Attribute       *)
(* lookup and invocation follow the built-in list.                         *)
(***************************************************************************)
ListObj(ref) == [kind |-> "list", ref |-> ref, name |-> ""]
MethodObj(ref, name) == [kind |-> "method", ref |-> ref, name |-> name]

\* getattr(obj, name): <<>> when the lookup raises AttributeError
getattr(obj, name) ==
    IF obj.kind = "list"
    THEN IF name \in {"append", "pop", "__len__", "__str__"}
         THEN <<MethodObj(obj.ref, name)>> ELSE <<>>
    ELSE IF name = "__self__" THEN <<ListObj(obj.ref)>> ELSE <<>>

\* type(obj).__name__
TypeName(obj) == IF obj.kind = "list" THEN "list" ELSE "builtin_function_or_method"

\* obj.__doc__
Doc(obj) == IF obj.kind = "list" THEN "list.__doc__" ELSE obj.name

Front(s) == SubSeq(s, 1, Len(s) - 1)

\* obj(*args) on a list holding lst: the result (or the exception raised) and
\* the list afterwards
Invoke(obj, args, lst) ==
    IF obj.kind # "method" THEN [result |-> Exc("TypeError"), state |-> lst]
    ELSE IF obj.name = "append"
    THEN IF Len(args) = 1
         THEN [result |-> NoneVal, state |-> Append(lst, args[1])]
         ELSE [result |-> Exc("TypeError"), state |-> lst]
    ELSE IF Len(args) # 0 THEN [result |-> Exc("TypeError"), state |-> lst]
    ELSE IF obj.name = "pop"
    THEN IF lst = <<>>
         THEN [result |-> Exc("IndexError"), state |-> lst]
         ELSE [result |-> IntVal(lst[Len(lst)]), state |-> Front(lst)]
    ELSE IF obj.name = "__len__"
    THEN [result |-> IntVal(Len(lst)), state |-> lst]
    ELSE [result |-> StrVal(lst), state |-> lst]

(***************************************************************************)
(* State.                                                                  *)
(***************************************************************************)
VARIABLES
    file,       \* user_query.md: <<>> absent, <<c>> with content c
    report,     \* report.md: the blocks appended so far
    store,      \* the wrapped lists, by reference
    heap,       \* the objects json.loads / copy.deepcopy created
    nodes,      \* the Probed nodes built so far
    lineage,    \* per node: the root it was derived from and the names accessed
    runtimes,   \* the AIRuntime objects built so far
    pc,         \* per thread of control: where its handler stands
    fr,         \* per thread of control: the handler's locals
    nops,       \* handlers started (bounds the exploration)
    epoch,      \* changes of user_query.md so far
    mainpc,     \* main.py: the statement main() is at
    length      \* main.py: the local that line 14 binds

vars == <<file, report, store, heap, nodes, lineage, runtimes, pc, fr,
          nops, epoch, mainpc, length>>


(***************************************************************************)
(* Event descriptors, history records, frames.                             *)
(***************************************************************************)
\* json.dumps({"function": prefix, "args": args, "kwargs": kwargs}, indent=2)
EventData(prefix, args) == [function |-> prefix, args |-> args, kwargs |-> <<>>]
EmptyEvent == [function |-> <<>>, args |-> <<>>, kwargs |-> <<>>]

\* one record of an entry's history (the text one template adds to it)
HRec(kind, type, prompt, event, verdict, value) ==
    [kind |-> kind, type |-> type, prompt |-> prompt, event |-> event,
     verdict |-> verdict, value |-> value]

\* INIT.format(type=..., initial_state=str(obj), user_instructions=prompt)
INIT(type, initial_state, user_instructions) ==
    HRec("init", type, user_instructions, EmptyEvent, <<>>, StrVal(initial_state))

\* DECISION_HISTORY_TEMPLATE.format(event_content=..., interrupted=..., ...)
DECISION_HISTORY_TEMPLATE(event_content, interrupted, reported, stopped) ==
    HRec("decision", "", "", event_content, <<interrupted, reported, stopped>>, Unset)

\* a variant that files the observed result as a substitute
ListeningAsResponding(result) ==
    [kind |-> "substituted", type |-> "", prompt |-> "",
     event |-> [args |-> <<>>, function |-> <<>>, kwargs |-> <<>>],
     verdict |-> <<>>, value |-> result]

\* LISTENING_HISTORY_TEMPLATE.format(result=result)
LISTENING_HISTORY_TEMPLATE(result) ==
    HRec("observed", "", "", EmptyEvent, <<>>, result)

\* RESPONDING_HISTORY_TEMPLATE.format(response=output)
RESPONDING_HISTORY_TEMPLATE(response) ==
    HRec("substituted", "", "", EmptyEvent, <<>>, response)

\* hashlib.md5(f"{event_content}|{result_schema}".encode()).hexdigest()
CacheKey(event_content, result_schema) == md5(<<event_content, "|", result_schema>>)
NoKey == md5(<<EmptyEvent, "|", "">>)

IdleFrame ==
    [op |-> "none", self |-> 0, args |-> <<>>, data |-> EmptyEvent,
     history |-> <<>>, query |-> "", verdict |-> <<>>, stop_after |-> FALSE,
     schema |-> "", example |-> Unset, key |-> NoKey, result |-> Unset,
     \* bookkeeping of the verification, not program state:
     pre |-> <<>>,       \* the wrapped list when the handler started
     hlen0 |-> 0,        \* the entry's history length when the handler started
     trace |-> <<>>,     \* the handler's effects, in order
     readfile |-> <<>>,  \* user_query.md as the last consultation read it
     epoch |-> 0,        \* the number of file changes when respond_event read it
     prev |-> <<>>,      \* what the previous identical interrupted call returned
     under |-> <<>>,     \* on a cache hit: how the substitute served was fabricated
     retsnap |-> <<>>,   \* the returned substitute's value at return
     rlen0 |-> 0,        \* the blocks in report.md when the handler started
     nonbool |-> <<"", "", "">>]  \* the non-boolean fields of the decision reply

(***************************************************************************)
(* AIRuntime.                                                              *)
(***************************************************************************)
\* AIRuntime.__init__
AIRuntimeInit(enable_cache) ==
    [probed_objects |-> <<>>, enable_cache |-> enable_cache,
     response_cache |-> <<>>, user_query_hash |-> <<>>,
     user_query_content |-> "",
     \* bookkeeping: per cached key the file its substitute was fabricated
     \* under and the value fabricated; per key the last substitute returned,
     \* its value at return, and the file and the number of file changes then
     made_under |-> <<>>, served |-> <<>>]

\* a variant that answers an absent file with a text of its own
QueryOrNotice(rt, f) ==
    IF f = <<>> THEN [content |-> "missing", rt |-> rt]
    ELSE [content |-> f[1], rt |-> rt]

\* a variant that empties the cache at every read
QueryAlwaysClears(rt, f) ==
    [content |-> IF f = <<>> THEN "" ELSE f[1],
     rt |-> [rt EXCEPT !.response_cache = <<>>, !.made_under = <<>>]]

\* AIRuntime.get_user_additional_query on runtime record rt reading file f:
\* the text returned and the runtime afterwards
get_user_additional_query(rt, f) ==
    IF f = <<>> THEN [content |-> "", rt |-> rt]
    ELSE LET content == f[1]
             new_hash == md5(content) IN
         IF rt.enable_cache /\ new_hash # rt.user_query_hash
         THEN [content |-> content,
               rt |-> [rt EXCEPT !.response_cache = <<>>,
                                 !.made_under = <<>>,
                                 !.user_query_hash = new_hash,
                                 !.user_query_content = content]]
         ELSE [content |-> content, rt |-> rt]

\* AIRuntime.register_probing: probed_objects[probed] = INIT.format(...)
register_probing(rt, id, obj, prompt, lst) ==
    [rt EXCEPT !.probed_objects = (id :> <<INIT(TypeName(obj), lst, prompt)>>) @@ @]

(***************************************************************************)
(* Probed.                                                                 *)
(***************************************************************************)
\* Probed.__init__: the fields of node id.  entry = 0 stands for entry=None.
\* uuid4 is taken to be fresh: the node's own number stands for it.
ProbedInit(id, obj, prompt, prefix, stop_after, runtime, entry) ==
    IF entry # 0
    THEN [_obj |-> obj, _prompt |-> prompt, _prefix |-> prefix,
          _stop_after |-> stop_after, _entry |-> entry,
          _runtime |-> nodes[entry]._runtime]
    ELSE [_obj |-> obj, _prompt |-> prompt,
          _prefix |-> <<TypeName(obj), "_", ToString(id)>>,
          _stop_after |-> stop_after, _entry |-> id, _runtime |-> runtime]

\* a variant that labels the child after the entry instead of the parent
ChildPrefixFromEntry(n, name) == nodes[nodes[n]._entry]._prefix \o <<".", name>>

\* the child's pathLabel: f"{self._prefix}.{name}"
ChildPrefix(n, name) == nodes[n]._prefix \o <<".", name>>

\* a variant that names the parent as the child's entry
ChildEntryParent(n) == n

\* which node a child names as its entry
ChildEntry(n) == nodes[n]._entry

\* Probed._getattr_impl for a non-reserved name: <<>> when getattr raises,
\* otherwise the new child node (numbered id)
_getattr_impl(n, name, id) ==
    LET attr == getattr(nodes[n]._obj, name) IN
    IF attr = <<>> THEN <<>>
    ELSE <<ProbedInit(id, attr[1], nodes[n]._prompt, ChildPrefix(n, name),
                      nodes[n]._stop_after, 0, ChildEntry(n))>>

Idle(p) == pc[p] \in {"idle", "done"}
Roots == {n \in 1..Len(nodes) : lineage[n].chain = <<>>}

Finish(p, f) ==
    /\ pc' = [pc EXCEPT ![p] = "done"]
    /\ fr' = [fr EXCEPT ![p] = f]

Init ==
    /\ file \in Files
    /\ report = <<>>
    /\ store = <<>>
    /\ heap = <<>>
    /\ nodes = <<>>
    /\ lineage = <<>>
    /\ runtimes = <<>>
    /\ pc = [p \in Procs |-> "idle"]
    /\ fr = [p \in Procs |-> IdleFrame]
    /\ nops = 0
    /\ epoch = 0
    /\ mainpc = 0
    /\ length = Unset

\* the user edits, empties, creates or removes user_query.md
ChangeFile(f) ==
    /\ f # file
    /\ epoch < MaxEdits
    /\ file' = f
    /\ epoch' = epoch + 1
    /\ UNCHANGED <<report, store, heap, nodes, lineage, runtimes, pc, fr,
                   nops, mainpc, length>>

\* probe(value, prompt, runtime) / Probed(value, prompt, stop_after=..., runtime=...)
\* with a runtime built before (rt <= Len(runtimes)) or a new AIRuntime(enable_cache)
NewRoot(p, lst, stop_after, rt, enable_cache) ==
    LET id == Len(nodes) + 1
        ref == Len(store) + 1
        obj == ListObj(ref)
        rts == IF rt <= Len(runtimes) THEN runtimes
               ELSE Append(runtimes, AIRuntimeInit(enable_cache))
        node == ProbedInit(id, obj, "prompt", <<>>, stop_after, rt, 0) IN
    /\ Idle(p)
    /\ rt <= Len(runtimes) => enable_cache = runtimes[rt].enable_cache
    /\ store' = Append(store, lst)
    /\ nodes' = Append(nodes, node)
    /\ lineage' = Append(lineage, [root |-> id, chain |-> <<>>])
    /\ runtimes' = [rts EXCEPT ![node._runtime] =
                        register_probing(@, id, obj, node._prompt, lst)]
    /\ Finish(p, [IdleFrame EXCEPT !.op = "init", !.self = id])
    /\ nops' = nops + 1
    /\ UNCHANGED <<file, report, heap, epoch, mainpc, length>>

\* Probed.__getattr__(name)
\* a variant of the access that files the access as an event in the history
GetAttrIntercepted(p, n, name) ==
    LET id == Len(nodes) + 1
        child == _getattr_impl(n, name, id)
        rt == runtimes[nodes[n]._runtime]
        entry == nodes[n]._entry
        rec == [kind |-> "decision", type |-> "", prompt |-> "",
                event |-> [args |-> <<>>, function |-> nodes[n]._prefix,
                           kwargs |-> <<>>],
                verdict |-> <<FALSE, FALSE, FALSE>>,
                value |-> [t |-> "unset", v |-> <<>>]] IN
    /\ pc[p] \in {"idle", "done"}
    /\ name \notin RESERVED_FIELDS
    /\ child # <<>>
    /\ nodes' = Append(nodes, child[1])
    /\ lineage' = Append(lineage,
           [root |-> lineage[n].root, chain |-> Append(lineage[n].chain, name)])
    /\ runtimes' = [runtimes EXCEPT ![nodes[n]._runtime] =
           [rt EXCEPT !.probed_objects =
               (entry :> Append(rt.probed_objects[entry], rec)) @@ @]]
    /\ pc' = [pc EXCEPT ![p] = "done"]
    /\ fr' = [fr EXCEPT ![p] = [IdleFrame EXCEPT !.op = "getattr", !.self = n,
                                                 !.result = [t |-> "ref", v |-> <<id>>]]]
    /\ nops' = nops + 1
    /\ UNCHANGED <<file, report, store, heap, epoch, mainpc, length>>

GetAttr(p, n, name) ==
    LET id == Len(nodes) + 1
        child == _getattr_impl(n, name, id) IN
    /\ Idle(p)
    /\ name \notin RESERVED_FIELDS
    /\ IF child = <<>>
       THEN /\ Finish(p, [IdleFrame EXCEPT !.op = "getattr", !.self = n,
                                          !.result = Exc("AttributeError")])
            /\ UNCHANGED <<nodes, lineage>>
       ELSE /\ nodes' = Append(nodes, child[1])
            /\ lineage' = Append(lineage,
                   [root |-> lineage[n].root, chain |-> Append(lineage[n].chain, name)])
            /\ Finish(p, [IdleFrame EXCEPT !.op = "getattr", !.self = n,
                                          !.result = RefVal(id)])
    /\ nops' = nops + 1
    /\ UNCHANGED <<file, report, store, heap, runtimes, epoch, mainpc,
                   length>>


(***************************************************************************)
(* The oracle.  agent.llm_call either raises or returns text; the text is  *)
(* either not JSON or a JSON object.  A decision object gives each of the  *)
(* three fields as true, false, or not at all.                             *)
(***************************************************************************)
FieldVals == {"true", "false", "absent"}
Fields == {"should_interrupt", "should_report", "should_stop"}
DecisionObjects == [Fields -> FieldVals]
Replies == {"raise", "badjson", "ok"}

\* values of a field that are not booleans: a string such as "no", and null
NonBooleans == {"text", "null"}
RawVals == FieldVals \cup NonBooleans
RawObjects == [Fields -> RawVals]

\* output.get(field, False)
Get(output, field) == IF output[field] = "absent" THEN "false" ELSE output[field]

\* bool(v), as the tests of __call__ and of the history record take a field
Truthy(v) == v \in {"true", "text"}

\* the result tuple of ask_model_decisions, each element as those tests take it
DecisionResult(output) ==
    <<Truthy(Get(output, "should_interrupt")), Truthy(Get(output, "should_report")),
      Truthy(Get(output, "should_stop"))>>

\* per field of the reply, the value it held if that was not a boolean
NonBool(output) ==
    LET nb(field) == IF output[field] \in NonBooleans THEN output[field] ELSE "" IN
    <<nb("should_interrupt"), nb("should_report"), nb("should_stop")>>

\* the exception a failed consultation raises
ReplyExc(reply) == IF reply = "raise" THEN Exc("OracleError") ELSE Exc("JSONDecodeError")

(***************************************************************************)
(* Probed.__call__, split at the points where it waits on the environment: *)
(* the three oracle consultations and the two debugger pauses.             *)
(***************************************************************************)
Node(p) == nodes[fr[p].self]
Entry(p) == Node(p)._entry
Rt(p) == Node(p)._runtime
Ref(p) == Node(p)._obj.ref
Log(f, e) == Append(f.trace, e)

\* a variant that starts the history over with the record
RestartWith(history, rec) == <<rec>>

\* a variant that puts the record in front
PrependRecord(history, rec) == <<rec>> \o history

\* history += "\n" + <record>
AddRecord(history, rec) == Append(history, rec)

\* a variant that drops the write
WriteHistoryLost(rt, entry, history) == rt

\* a variant that also files the history in the cache
WriteHistoryCached(rt, entry, history) ==
    [rt EXCEPT !.probed_objects = (entry :> history) @@ @,
               !.response_cache = (NoKey :> 0) @@ @]

\* self.probed_objects[probed] = history
WriteHistory(rt, entry, history) ==
    [rt EXCEPT !.probed_objects = (entry :> history) @@ @]

\* a variant that returns without the pause-after
AfterOutcomeNoPause(p, f) == Finish(p, f)

\* where __call__ goes once its result is final: the pause-after, or the return
AfterOutcome(p, f) ==
    IF f.verdict[3] /\ f.stop_after
    THEN /\ pc' = [pc EXCEPT ![p] = "pause_after"]
         /\ fr' = [fr EXCEPT ![p] = [f EXCEPT !.trace = Log(f, "pause_after")]]
    ELSE Finish(p, f)

\* lines 47-56 and ask_model_decisions up to the oracle call
Call(p, n, args) ==
    LET data == EventData(nodes[n]._prefix, args)
        entry == nodes[n]._entry
        rtid == nodes[n]._runtime
        history == runtimes[rtid].probed_objects[entry]
        q == get_user_additional_query(runtimes[rtid], file) IN
    /\ Idle(p)
    /\ runtimes' = [runtimes EXCEPT ![rtid] = q.rt]
    /\ pc' = [pc EXCEPT ![p] = "ask"]
    /\ fr' = [fr EXCEPT ![p] = [IdleFrame EXCEPT
                 !.op = "call", !.self = n, !.args = args, !.data = data,
                 !.history = history, !.query = q.content,
                 !.readfile = file, !.rlen0 = Len(report),
                 !.pre = store[nodes[n]._obj.ref], !.hlen0 = Len(history)]]
    /\ nops' = nops + 1
    /\ UNCHANGED <<file, report, store, heap, nodes, lineage, epoch, mainpc,
                   length>>

\* ask_model_decisions from the oracle's reply on
AskReply(p, reply, output) ==
    LET f == fr[p]
        result == DecisionResult(output)
        history == AddRecord(f.history,
                       DECISION_HISTORY_TEMPLATE(f.data, result[1], result[2], result[3])) IN
    /\ pc[p] = "ask"
    /\ IF reply # "ok"
       THEN /\ Finish(p, [f EXCEPT !.result = ReplyExc(reply),
                                   !.trace = Log(f, "decision_failed")])
            /\ UNCHANGED runtimes
       ELSE /\ runtimes' = [runtimes EXCEPT ![Rt(p)] = WriteHistory(@, Entry(p), history)]
            /\ pc' = [pc EXCEPT ![p] = "report"]
            /\ fr' = [fr EXCEPT ![p] = [f EXCEPT !.history = history,
                                                 !.verdict = result,
                                                 !.nonbool = NonBool(output),
                                                 !.trace = Log(f, "decision")]]
    /\ UNCHANGED <<file, report, store, heap, nodes, lineage, nops, epoch,
                   mainpc, length>>

\* Probed._resolve_stop_after; env is PROBE_STOP_AFTER being one of 1/true/yes
_resolve_stop_after(n, env) ==
    IF nodes[nodes[n]._entry]._stop_after # "None"
    THEN nodes[nodes[n]._entry]._stop_after = "True"
    ELSE env

\* a variant that never pauses before the operation
PausesBeforeNever(should_be_stopped, stop_after) == FALSE

\* whether __call__ pauses before the operation
PausesBefore(should_be_stopped, stop_after) == should_be_stopped /\ ~stop_after

\* lines 66-69: report_data
ReportData(data) == [timestamp |-> "now", event_data |-> data]

\* a variant of line 70 that opens report.md with mode "w"
OverwriteWith(blocks, block) == <<block>>

\* lines 70-71: with open("report.md", "a") as f: f.write(...)
AppendBlock(blocks, block) == Append(blocks, block)

\* lines 65-76: the audit record (written receives whether report.md could be
\* written), the stop mode, the pause-before
Report(p, written, env) ==
    LET f == fr[p]
        stop_after == _resolve_stop_after(f.self, env)
        f1 == [f EXCEPT !.stop_after = stop_after,
                        !.trace = IF f.verdict[2] THEN Log(f, "report") ELSE f.trace] IN
    /\ pc[p] = "report"
    /\ IF f.verdict[2] /\ ~written
       THEN /\ Finish(p, [f EXCEPT !.result = Exc("OSError"),
                                   !.trace = Log(f, "report_failed")])
            /\ UNCHANGED report
       ELSE /\ report' = IF f.verdict[2]
                         THEN AppendBlock(report, ReportData(f.data))
                         ELSE report
            /\ IF PausesBefore(f.verdict[3], stop_after)
               THEN /\ pc' = [pc EXCEPT ![p] = "pause_before"]
                    /\ fr' = [fr EXCEPT ![p] = [f1 EXCEPT !.trace = Log(f1, "pause_before")]]
               ELSE /\ pc' = [pc EXCEPT ![p] = "enforce"]
                    /\ fr' = [fr EXCEPT ![p] = f1]
    /\ UNCHANGED <<file, store, heap, nodes, lineage, runtimes, nops, epoch,
                   mainpc, length>>

\* the debugger is left: ipdb.set_trace() at line 76 returns
ResumeBefore(p) ==
    /\ pc[p] = "pause_before"
    /\ pc' = [pc EXCEPT ![p] = "enforce"]
    /\ UNCHANGED <<file, report, store, heap, nodes, lineage, runtimes, fr,
                   nops, epoch, mainpc, length>>

\* line 82: result_example = self._obj(*args, **kwargs)
ExampleCall(obj, args, lst) == Invoke(obj, args, lst)

\* a variant of line 94 that invokes the operation a second time
RealCallTwice(obj, args, lst) == Invoke(obj, args, Invoke(obj, args, lst).state)

\* a variant of line 94 that leaves the operation out
RealCallSkipped(obj, args, lst) == [result |-> NoneVal, state |-> lst]

\* line 94: result = self._obj(*args, **kwargs)
RealCall(obj, args, lst) == Invoke(obj, args, lst)

\* a variant of lines 85-92 that hands the caller the example
InterruptResultExample(substitute, result_example) == result_example

\* lines 85-92: result = self._runtime.respond_event(...); return result
InterruptResult(substitute, result_example) == substitute

\* copy.deepcopy(self.response_cache[cache_key]): the value of the new object
DeepCopy(ref) == heap[ref]

\* a variant of the hit branch that files a substituted record
CacheHitRecorded(rt, entry, cache_key) ==
    WriteHistory(rt, entry,
        AddRecord(rt.probed_objects[entry],
                  RESPONDING_HISTORY_TEMPLATE(StrVal(heap[rt.response_cache[cache_key]]))))

\* respond_event, lines 111-114: the engine after a cache hit (the lookup and
\* the deep copy assign nothing)
CacheHit(rt, entry, cache_key) == rt

\* lines 78-87 and respond_event up to its return (a cache hit) or its oracle call
EnforceInterrupt(p) ==
    LET f == fr[p]
        obj == Node(p)._obj
        result_schema == Doc(obj)
        inv == ExampleCall(obj, f.args, store[obj.ref])
        result_example == IF IsExc(inv.result) THEN Placeholder ELSE inv.result
        q == get_user_additional_query(runtimes[Rt(p)], file)
        cache_key == CacheKey(f.data, result_schema)
        hit == q.rt.enable_cache /\ cache_key \in DOMAIN q.rt.response_cache
        new == Len(heap) + 1
        prev == IF cache_key \in DOMAIN q.rt.served THEN <<q.rt.served[cache_key]>> ELSE <<>>
        f1 == [f EXCEPT !.schema = result_schema, !.example = result_example,
                        !.query = q.content, !.key = cache_key,
                        !.readfile = file, !.epoch = epoch, !.prev = prev,
                        !.trace = Log(f, IF IsExc(inv.result) THEN "example_failed"
                                                                ELSE "example")] IN
    /\ pc[p] = "enforce"
    /\ f.verdict[1]
    /\ store' = [store EXCEPT ![obj.ref] = inv.state]
    /\ IF hit
       THEN /\ heap' = Append(heap, DeepCopy(q.rt.response_cache[cache_key]))
            /\ runtimes' = [runtimes EXCEPT ![Rt(p)] =
                   [CacheHit(q.rt, Entry(p), cache_key) EXCEPT !.served =
                       (cache_key :> [ref |-> new, value |-> heap'[new],
                                      file |-> file, epoch |-> epoch]) @@ @]]
            /\ AfterOutcome(p, [f1 EXCEPT !.result = InterruptResult(RefVal(new), result_example),
                   !.retsnap = heap'[new],
                   !.under = <<q.rt.made_under[cache_key]>>,
                   !.trace = Log(f1, "hit")])
       ELSE /\ heap' = heap
            /\ runtimes' = [runtimes EXCEPT ![Rt(p)] = q.rt]
            /\ pc' = [pc EXCEPT ![p] = "respond"]
            /\ fr' = [fr EXCEPT ![p] =
                   [f1 EXCEPT !.history = q.rt.probed_objects[Entry(p)]]]
    /\ UNCHANGED <<file, report, nodes, lineage, nops, epoch, mainpc, length>>

\* respond_event from the oracle's reply on, and lines 88-92
RespondReply(p, reply, value) ==
    LET f == fr[p]
        rt == runtimes[Rt(p)]
        output == Len(heap) + 1
        history == AddRecord(f.history, RESPONDING_HISTORY_TEMPLATE(StrVal(value)))
        rt1 == WriteHistory(rt, Entry(p), history)
        rt2 == IF rt.enable_cache
               THEN [rt1 EXCEPT !.response_cache = (f.key :> output) @@ @,
                                !.made_under =
                                    (f.key :> [file |-> f.readfile, value |-> value]) @@ @]
               ELSE rt1
        rt3 == [rt2 EXCEPT !.served =
                   (f.key :> [ref |-> output, value |-> value,
                              file |-> f.readfile, epoch |-> f.epoch]) @@ @] IN
    /\ pc[p] = "respond"
    /\ IF reply # "ok"
       THEN /\ Finish(p, [f EXCEPT !.result = ReplyExc(reply),
                                   !.trace = Log(f, "respond_failed")])
            /\ UNCHANGED <<heap, runtimes>>
       ELSE /\ heap' = Append(heap, value)
            /\ runtimes' = [runtimes EXCEPT ![Rt(p)] = rt3]
            /\ AfterOutcome(p, [f EXCEPT !.history = history,
                   !.result = InterruptResult(RefVal(output), f.example),
                   !.retsnap = value,
                   !.trace = Log(f, "respond")])
    /\ UNCHANGED <<file, report, store, nodes, lineage, nops, epoch, mainpc,
                   length>>

\* line 94 and listen_event up to its oracle call
EnforceReal(p) ==
    LET f == fr[p]
        obj == Node(p)._obj
        inv == RealCall(obj, f.args, store[obj.ref])
        history == runtimes[Rt(p)].probed_objects[Entry(p)]
        q == get_user_additional_query(runtimes[Rt(p)], file) IN
    /\ pc[p] = "enforce"
    /\ ~f.verdict[1]
    /\ store' = [store EXCEPT ![obj.ref] = inv.state]
    /\ IF IsExc(inv.result)
       THEN /\ Finish(p, [f EXCEPT !.result = inv.result,
                                   !.trace = Log(f, "real_failed")])
            /\ UNCHANGED runtimes
       ELSE /\ runtimes' = [runtimes EXCEPT ![Rt(p)] = q.rt]
            /\ pc' = [pc EXCEPT ![p] = "listen"]
            /\ fr' = [fr EXCEPT ![p] = [f EXCEPT !.result = inv.result,
                         !.history = history, !.query = q.content,
                         !.readfile = file,
                         !.trace = Log(f, "real")]]
    /\ UNCHANGED <<file, report, heap, nodes, lineage, nops, epoch, mainpc,
                   length>>

\* listen_event from the oracle's reply on, and lines 96-100
ListenReply(p, reply) ==
    LET f == fr[p]
        history == AddRecord(f.history, LISTENING_HISTORY_TEMPLATE(f.result)) IN
    /\ pc[p] = "listen"
    /\ IF reply # "ok"
       THEN /\ Finish(p, [f EXCEPT !.result = ReplyExc(reply),
                                   !.trace = Log(f, "listen_failed")])
            /\ UNCHANGED runtimes
       ELSE /\ runtimes' = [runtimes EXCEPT ![Rt(p)] = WriteHistory(@, Entry(p), history)]
            /\ AfterOutcome(p, [f EXCEPT !.history = history,
                                         !.trace = Log(f, "listen")])
    /\ UNCHANGED <<file, report, store, heap, nodes, lineage, nops, epoch,
                   mainpc, length>>

\* the debugger is left: ipdb.set_trace() at line 91 / 99 returns, then the result
ResumeAfter(p) ==
    /\ pc[p] = "pause_after"
    /\ pc' = [pc EXCEPT ![p] = "done"]
    /\ UNCHANGED <<file, report, store, heap, nodes, lineage, runtimes, fr,
                   nops, epoch, mainpc, length>>


(***************************************************************************)
(* The other handlers of Probed, and what a caller does with a result.     *)
(***************************************************************************)
\* self._obj[key] on a list holding lst (key counted from 0)
ItemRead(obj, key, lst) ==
    IF obj.kind # "list" THEN Exc("TypeError")
    ELSE IF key + 1 \in 1..Len(lst) THEN IntVal(lst[key + 1]) ELSE Exc("IndexError")

\* Probed.__getitem__
GetItem(p, n, key) ==
    LET obj == nodes[n]._obj IN
    /\ Idle(p)
    /\ Finish(p, [IdleFrame EXCEPT !.op = "getitem", !.self = n, !.args = <<key>>,
                      !.pre = store[obj.ref],
                      !.trace = <<"read">>,
                      !.result = ItemRead(obj, key, store[obj.ref])])
    /\ nops' = nops + 1
    /\ UNCHANGED <<file, report, store, heap, nodes, lineage, runtimes,
                   epoch, mainpc, length>>

\* Probed.__setitem__
SetItem(p, n, key, value) ==
    LET obj == nodes[n]._obj
        lst == store[obj.ref]
        ok == obj.kind = "list" /\ key + 1 \in 1..Len(lst) IN
    /\ Idle(p)
    /\ store' = IF ok THEN [store EXCEPT ![obj.ref][key + 1] = value] ELSE store
    /\ Finish(p, [IdleFrame EXCEPT !.op = "setitem", !.self = n,
                      !.args = <<key, value>>, !.pre = lst,
                      !.trace = <<"write">>,
                      !.result = IF ok THEN NoneVal
                                 ELSE IF obj.kind = "list" THEN Exc("IndexError")
                                 ELSE Exc("TypeError")])
    /\ nops' = nops + 1
    /\ UNCHANGED <<file, report, heap, nodes, lineage, runtimes, epoch,
                   mainpc, length>>

\* Probed.__setattr__ for a name outside RESERVED_FIELDS: setattr(self._obj, ...)
\* reaches the wrapped value, which (a list, a built-in method) refuses it
SetAttr(p, n, name, value) ==
    /\ Idle(p)
    /\ name \notin RESERVED_FIELDS
    /\ Finish(p, [IdleFrame EXCEPT !.op = "setattr", !.self = n, !.args = <<value>>,
                      !.pre = store[nodes[n]._obj.ref],
                      !.trace = <<"write">>,
                      !.result = Exc("AttributeError")])
    /\ nops' = nops + 1
    /\ UNCHANGED <<file, report, store, heap, nodes, lineage, runtimes,
                   epoch, mainpc, length>>

\* the caller appends to the list an interrupted call handed it
MutateReturned(p) ==
    LET r == fr[p].result.v[1] IN
    /\ pc[p] = "done"
    /\ fr[p].op = "call"
    /\ fr[p].result.t = "ref"
    /\ Len(heap[r]) < 2
    /\ heap' = [heap EXCEPT ![r] = Append(@, 9)]
    /\ UNCHANGED <<file, report, store, nodes, lineage, runtimes, pc, fr, nops,
                   epoch, mainpc, length>>

(***************************************************************************)
(* The program: one thread of control using the handlers in any order.     *)
(***************************************************************************)
NodeIds == 1..Len(nodes)
ArgsFor(n) == IF nodes[n]._obj.kind = "method" THEN ArgsOf(nodes[n]._obj.name) ELSE {<<>>}
Grows(n, args) == nodes[n]._obj.kind = "method" /\ nodes[n]._obj.name = "append"

Step(p) ==
    \/ \E lst \in InitialLists, sa \in StopModes, rt \in 1..(Len(runtimes) + 1),
          ec \in BOOLEAN :
          /\ nops < MaxOps
          /\ Len(nodes) < MaxNodes
          /\ Cardinality(Roots) < MaxRoots
          /\ NewRoot(p, lst, sa, rt, ec)
    \/ \E n \in NodeIds, name \in Names :
          /\ nops < MaxOps
          /\ Len(nodes) < MaxNodes
          /\ GetAttr(p, n, name)
    \/ \E n \in NodeIds : \E args \in ArgsFor(n) :
          /\ nops < MaxOps
          /\ Grows(n, args) => Len(store[nodes[n]._obj.ref]) < MaxLen
          /\ Call(p, n, args)
    \/ \E reply \in Replies, output \in DecisionObjects : AskReply(p, reply, output)
    \/ \E written \in BOOLEAN, env \in BOOLEAN : Report(p, written, env)
    \/ ResumeBefore(p)
    \/ EnforceInterrupt(p)
    \/ \E reply \in Replies, value \in SubstValues : RespondReply(p, reply, value)
    \/ EnforceReal(p)
    \/ \E reply \in {"raise", "ok"} : ListenReply(p, reply)
    \/ ResumeAfter(p)
    \/ \E n \in Roots, key \in {0} : nops < MaxOps /\ GetItem(p, n, key)
    \/ \E n \in Roots, key \in {0} : nops < MaxOps /\ SetItem(p, n, key, 2)
    \/ \E n \in Roots : nops < MaxOps /\ SetAttr(p, n, "x", 2)
    \/ MutateReturned(p)

\* user_query.md is only seen when get_user_additional_query reads it: a change
\* made anywhere between two reads is one made just before the later read
AboutToRead(p) == pc[p] \in {"idle", "done", "enforce"}

Next ==
    \/ Step(1)
    \/ \E f \in Files : AboutToRead(1) /\ ChangeFile(f)

Spec == Init /\ [][Next]_vars


(***************************************************************************)
(* The same program under an oracle that never asks for a report or a      *)
(* stop: it allows or interrupts.  Runs are one handler longer.            *)
(***************************************************************************)
QuietObjects == {o \in DecisionObjects :
                    o["should_report"] = "absent" /\ o["should_stop"] = "false"}

QuietStep(p) ==
    \/ \E lst \in InitialLists, sa \in StopModes, rt \in 1..(Len(runtimes) + 1),
          ec \in BOOLEAN :
          /\ nops < MaxQuietOps
          /\ Len(nodes) < MaxNodes
          /\ Cardinality(Roots) < MaxRoots
          /\ NewRoot(p, lst, sa, rt, ec)
    \/ \E n \in NodeIds, name \in Names :
          /\ nops < MaxQuietOps
          /\ Len(nodes) < MaxNodes
          /\ GetAttr(p, n, name)
    \/ \E n \in NodeIds : \E args \in ArgsFor(n) :
          /\ nops < MaxQuietOps
          /\ Grows(n, args) => Len(store[nodes[n]._obj.ref]) < MaxLen
          /\ Call(p, n, args)
    \/ \E reply \in Replies, output \in QuietObjects : AskReply(p, reply, output)
    \/ Report(p, TRUE, FALSE)
    \/ EnforceInterrupt(p)
    \/ \E reply \in Replies, value \in SubstValues : RespondReply(p, reply, value)
    \/ EnforceReal(p)
    \/ \E reply \in {"raise", "ok"} : ListenReply(p, reply)
    \/ MutateReturned(p)

NextQuiet ==
    \/ QuietStep(1)
    \/ \E f \in Files : AboutToRead(1) /\ ChangeFile(f)

SpecQuiet == Init /\ [][NextQuiet]_vars


(***************************************************************************)
(* The same program under an oracle that allows every call and may ask for *)
(* a report, with report.md writable or not.                               *)
(***************************************************************************)
MaxAuditOps == 4

AuditObjects == {o \in DecisionObjects :
                    o["should_interrupt"] = "false" /\ o["should_stop"] = "absent"}

AuditStep(p) ==
    \/ \E lst \in InitialLists, sa \in StopModes, rt \in 1..(Len(runtimes) + 1),
          ec \in BOOLEAN :
          /\ nops < MaxAuditOps
          /\ Len(nodes) < MaxNodes
          /\ Cardinality(Roots) < MaxRoots
          /\ NewRoot(p, lst, sa, rt, ec)
    \/ \E n \in NodeIds, name \in Names :
          /\ nops < MaxAuditOps
          /\ Len(nodes) < MaxNodes
          /\ GetAttr(p, n, name)
    \/ \E n \in NodeIds : \E args \in ArgsFor(n) :
          /\ nops < MaxAuditOps
          /\ Grows(n, args) => Len(store[nodes[n]._obj.ref]) < MaxLen
          /\ Call(p, n, args)
    \/ \E reply \in Replies, output \in AuditObjects : AskReply(p, reply, output)
    \/ \E written \in BOOLEAN : Report(p, written, FALSE)
    \/ EnforceReal(p)
    \/ \E reply \in {"raise", "ok"} : ListenReply(p, reply)

NextAudit == AuditStep(1)

SpecAudit == Init /\ [][NextAudit]_vars


(***************************************************************************)
(* The same program under an oracle whose decision objects may hold values *)
(* that are not booleans.                                                  *)
(***************************************************************************)
VerdictStep(p) ==
    \/ \E lst \in InitialLists, sa \in StopModes :
          /\ nops < MaxOps
          /\ Cardinality(Roots) < 1
          /\ NewRoot(p, lst, sa, 1, TRUE)
    \/ \E n \in NodeIds, name \in Names :
          /\ nops < MaxOps
          /\ Len(nodes) < MaxNodes
          /\ GetAttr(p, n, name)
    \/ \E n \in NodeIds : \E args \in ArgsFor(n) :
          /\ nops < MaxOps
          /\ Grows(n, args) => Len(store[nodes[n]._obj.ref]) < MaxLen
          /\ Call(p, n, args)
    \/ \E reply \in Replies, output \in RawObjects : AskReply(p, reply, output)
    \/ \E written \in BOOLEAN, env \in BOOLEAN : Report(p, written, env)
    \/ ResumeBefore(p)
    \/ EnforceInterrupt(p)
    \/ \E reply \in Replies, value \in SubstValues : RespondReply(p, reply, value)
    \/ EnforceReal(p)
    \/ \E reply \in {"raise", "ok"} : ListenReply(p, reply)
    \/ ResumeAfter(p)

NextVerdict == VerdictStep(1)

SpecVerdict == Init /\ [][NextVerdict]_vars


(***************************************************************************)
(* Two threads of control, each calling through the nodes of its own entry *)
(* (thread p through entry p); the two entries are registered with one     *)
(* AIRuntime.  The steps of the two threads interleave freely.             *)
(***************************************************************************)
MaxSharedOps == 3

SharedList == <<1>>

\* rt = AIRuntime(); probe([1], "prompt", rt); probe([1], "prompt", rt)
InitShared ==
    /\ file \in Files
    /\ report = <<>>
    /\ store = <<SharedList, SharedList>>
    /\ heap = <<>>
    /\ nodes = <<ProbedInit(1, ListObj(1), "prompt", <<>>, "True", 1, 0),
                 ProbedInit(2, ListObj(2), "prompt", <<>>, "True", 1, 0)>>
    /\ lineage = <<[root |-> 1, chain |-> <<>>], [root |-> 2, chain |-> <<>>]>>
    /\ runtimes = <<register_probing(
                      register_probing(AIRuntimeInit(TRUE), 1, ListObj(1),
                                       "prompt", SharedList),
                      2, ListObj(2), "prompt", SharedList)>>
    /\ pc = [p \in Procs |-> "idle"]
    /\ fr = [p \in Procs |-> IdleFrame]
    /\ nops = 0
    /\ epoch = 0
    /\ mainpc = 0
    /\ length = Unset

\* the nodes of the entry thread p works on
NodesOf(p) == {n \in NodeIds : lineage[n].root = p}

SharedStep(p) ==
    \/ \E n \in NodesOf(p) :
          /\ nops < MaxSharedOps
          /\ Len(nodes) < MaxNodes
          /\ GetAttr(p, n, "__len__")
    \/ \E n \in NodesOf(p) :
          /\ nops < MaxSharedOps
          /\ Call(p, n, <<>>)
    \/ \E reply \in Replies, output \in QuietObjects : AskReply(p, reply, output)
    \/ Report(p, TRUE, FALSE)
    \/ EnforceInterrupt(p)
    \/ \E reply \in Replies, value \in SubstValues : RespondReply(p, reply, value)
    \/ EnforceReal(p)
    \/ \E reply \in {"raise", "ok"} : ListenReply(p, reply)

NextShared ==
    \/ \E p \in Procs : SharedStep(p)
    \/ \E f \in Files : (\E p \in Procs : AboutToRead(p)) /\ ChangeFile(f)

SpecShared == InitShared /\ [][NextShared]_vars


(***************************************************************************)
(* Two threads working on one entry: both call nodes of the same root, with *)
(* nothing serializing them.                                               *)
(***************************************************************************)
MaxSameOps == 3

\* rt = AIRuntime(); probe([1], "prompt", rt)
InitSame ==
    /\ file \in Files
    /\ report = <<>>
    /\ store = <<SharedList>>
    /\ heap = <<>>
    /\ nodes = <<ProbedInit(1, ListObj(1), "prompt", <<>>, "True", 1, 0)>>
    /\ lineage = <<[root |-> 1, chain |-> <<>>]>>
    /\ runtimes = <<register_probing(AIRuntimeInit(TRUE), 1, ListObj(1),
                                     "prompt", SharedList)>>
    /\ pc = [p \in Procs |-> "idle"]
    /\ fr = [p \in Procs |-> IdleFrame]
    /\ nops = 0
    /\ epoch = 0
    /\ mainpc = 0
    /\ length = Unset

SameStep(p) ==
    \/ \E n \in NodeIds :
          /\ nops < MaxSameOps
          /\ Len(nodes) < MaxNodes
          /\ GetAttr(p, n, "__len__")
    \/ \E n \in NodeIds :
          /\ nops < MaxSameOps
          /\ Call(p, n, <<>>)
    \/ \E reply \in Replies, output \in QuietObjects : AskReply(p, reply, output)
    \/ Report(p, TRUE, FALSE)
    \/ EnforceInterrupt(p)
    \/ \E reply \in Replies, value \in SubstValues : RespondReply(p, reply, value)
    \/ EnforceReal(p)
    \/ \E reply \in {"raise", "ok"} : ListenReply(p, reply)

NextSame == \E p \in Procs : SameStep(p)

SpecSame == InitSame /\ [][NextSame]_vars


(***************************************************************************)
(* main.py: mainpc is the statement main() is at, length its local.        *)
(***************************************************************************)
\* line 6-10: my_list = probe([1, 2, 3], "...", AIRuntime())
MainList == <<1, 2, 3>>
my_list == 1

\* the attribute statement mainpc goes through and the arguments it passes:
\* lines 11-13 append(4), append(5), append(6); line 14 __len__(); line 15
\* print(my_list), which is str(my_list)
MainName == [k \in 1..5 |-> IF k <= 3 THEN "append"
                            ELSE IF k = 4 THEN "__len__" ELSE "__str__"]
MainArgs == [k \in 1..5 |-> IF k <= 3 THEN <<k + 3>> ELSE <<>>]

\* the statement at mainpc is done without an exception: main goes on to the
\* next one (line 14 binds length)
NextStatement(p) ==
    /\ pc[p] = "done"
    /\ fr[p].op \in {"init", "call"}
    /\ ~IsExc(fr[p].result)
    /\ mainpc' = mainpc + 1
    /\ length' = IF mainpc = 4 THEN fr[p].result ELSE length
    /\ pc' = [pc EXCEPT ![p] = "idle"]
    /\ UNCHANGED <<file, report, store, heap, nodes, lineage, runtimes, fr,
                   nops, epoch>>

\* the verdicts so far that were not (false, false, false)
Allowed == <<FALSE, FALSE, FALSE>>
Deviations(history) ==
    Cardinality({i \in DOMAIN history :
                    history[i].kind = "decision" /\ history[i].verdict # Allowed})

\* probe() builds my_list with stop_after=True, so line 73 never pauses
MainStep(p) ==
    \/ mainpc = 0 /\ pc[p] = "idle" /\ NewRoot(p, MainList, "True", 1, TRUE)
    \/ mainpc \in 1..5 /\ pc[p] = "idle" /\ GetAttr(p, my_list, MainName[mainpc])
    \/ /\ mainpc \in 1..5
       /\ pc[p] = "done" /\ fr[p].op = "getattr"
       /\ Call(p, Len(nodes), MainArgs[mainpc])
    \/ \E reply \in Replies, output \in DecisionObjects :
          /\ DecisionResult(output) # Allowed
             => Deviations(fr[p].history) < MaxDeviations
          /\ AskReply(p, reply, output)
    \/ \E written \in BOOLEAN, env \in BOOLEAN : Report(p, written, env)
    \/ EnforceInterrupt(p)
    \/ \E reply \in Replies, value \in SubstValues : RespondReply(p, reply, value)
    \/ EnforceReal(p)
    \/ \E reply \in {"raise", "ok"} : ListenReply(p, reply)
    \/ ResumeAfter(p)
    \/ NextStatement(p)

NextMain ==
    \/ MainStep(1)
    \/ \E f \in Files : AboutToRead(1) /\ ChangeFile(f)

SpecMain == Init /\ [][NextMain]_vars


(***************************************************************************)
(* Properties.                                                             *)
(***************************************************************************)
Has(tr, e) == \E i \in DOMAIN tr : tr[i] = e
Returned(p) == pc[p] = "done" /\ fr[p].op = "call"
Decided(p) == fr[p].verdict # <<>>
History(n) == runtimes[nodes[n]._runtime].probed_objects[nodes[n]._entry]
IsPrefix(s, t) == Len(s) <= Len(t) /\ SubSeq(t, 1, Len(s)) = s

\* the same operation with the same arguments invoked on the unwrapped value
Direct(p) == Invoke(Node(p)._obj, fr[p].args, fr[p].pre)

\* C1: a call that is not interrupted and whose consultations succeed returns
\* what the direct invocation returns (or raises what it raises) and leaves the
\* wrapped value as the direct invocation leaves it
C1_DirectResult ==
    \A p \in Procs :
        (Returned(p) /\ Decided(p) /\ ~fr[p].verdict[1]
            /\ (Has(fr[p].trace, "listen") \/ Has(fr[p].trace, "real_failed")))
        => /\ fr[p].result = Direct(p).result
           /\ store[Ref(p)] = Direct(p).state

\* C1 witness: an allowed append has returned and the list has grown
C1_Witness ==
    \E p \in Procs :
        /\ Returned(p) /\ Decided(p) /\ ~fr[p].verdict[1]
        /\ Has(fr[p].trace, "listen")
        /\ Node(p)._obj.name = "append"
        /\ fr[p].result = NoneVal
        /\ store[Ref(p)] = Append(fr[p].pre, fr[p].args[1])

\* C2: when the verdict is to interrupt, the wrapped value after the call is
\* the wrapped value before it
C2_NotExecuted ==
    \A p \in Procs :
        (Returned(p) /\ Decided(p) /\ fr[p].verdict[1]) => store[Ref(p)] = fr[p].pre

\* C3: whatever reaches the wrapped value through a Probe (a call, an item read,
\* an item write, an attribute write) was preceded by a decision consultation
TouchEvents == {"example", "example_failed", "real", "real_failed", "read", "write"}
C3_DecidedFirst ==
    \A p \in Procs : \A i \in DOMAIN fr[p].trace :
        fr[p].trace[i] \in TouchEvents
        => \E j \in 1..(i - 1) : fr[p].trace[j] = "decision"


\* the records a returned call added to its entry's history
Added(p) == Len(History(fr[p].self)) - fr[p].hlen0

\* no step removes, changes or reorders a record of any entry's history
HistoriesGrow ==
    \A rt \in DOMAIN runtimes : \A e \in DOMAIN runtimes[rt].probed_objects :
        IsPrefix(runtimes[rt].probed_objects[e], runtimes'[rt].probed_objects[e])

\* C7 (as stated): every intercepted call adds one or two records
C7_Original ==
    \A p \in Procs : Returned(p) => Added(p) \in {1, 2}

\* C7 (amended): histories only grow, by appending; a call whose decision
\* consultation succeeded adds one or two records, one whose decision
\* consultation failed adds none
C7_AppendOnly ==
    /\ [][HistoriesGrow]_vars
    /\ [](\A p \in Procs : Returned(p) =>
             IF Decided(p) THEN Added(p) \in {1, 2} ELSE Added(p) = 0)

\* C7 witness: a second call on an entry has returned having added two records
\* to the three the first had left
C7_Witness ==
    \E p \in Procs : Returned(p) /\ Decided(p) /\ Added(p) = 2 /\ fr[p].hlen0 = 3


\* an interrupted call has handed its caller a substitute
Substituted(p) ==
    Returned(p) /\ (Has(fr[p].trace, "hit") \/ Has(fr[p].trace, "respond"))

\* C4: with the cache enabled and user_query.md untouched since the previous
\* interrupted call with the same event and schema returned, the call now
\* returning consulted no oracle for its substitute and returned a value equal
\* to the one the previous call returned
C4_Idempotent ==
    \A p \in Procs :
        (/\ Substituted(p)
         /\ runtimes[Rt(p)].enable_cache
         /\ fr[p].prev # <<>>
         /\ fr[p].prev[1].epoch = fr[p].epoch)
        => /\ Has(fr[p].trace, "hit")
           /\ fr[p].retsnap = fr[p].prev[1].value

\* C5: when user_query.md differs from what it was at the previous interrupted
\* call with the same event and schema, the call now returning has not been
\* served from the cache
C5_FreshAfterChange ==
    \A p \in Procs :
        (/\ Substituted(p)
         /\ fr[p].prev # <<>>
         /\ fr[p].prev[1].file # fr[p].readfile)
        => ~Has(fr[p].trace, "hit")

\* C6: a cache hit returns the value the oracle fabricated for that key,
\* whatever the callers did to the substitutes returned before
C6_Independent ==
    \A p \in Procs :
        (Returned(p) /\ Has(fr[p].trace, "hit"))
        => fr[p].retsnap = fr[p].under[1].value


\* the label L.n1.n2...nk of the node reached from a root labelled L by
\* accessing n1, ..., nk in order
RECURSIVE PathLabel(_, _)
PathLabel(L, chain) ==
    IF chain = <<>> THEN L
    ELSE PathLabel(L \o <<".", Head(chain)>>, Tail(chain))

LabelOf(n) == PathLabel(nodes[lineage[n].root]._prefix, lineage[n].chain)

\* C8: every node carries the label of its root followed by the names accessed
\* to reach it, and the event of a call made through a node names that label
C8_Chaining ==
    /\ \A n \in NodeIds : nodes[n]._prefix = LabelOf(n)
    /\ \A p \in Procs :
           (fr[p].op = "call" /\ pc[p] # "idle")
           => fr[p].data.function = LabelOf(fr[p].self)

\* C8 witness: a call through the node reached by two accesses has been
\* decided and has returned
C8_Witness ==
    \E p \in Procs :
        /\ Returned(p) /\ Decided(p)
        /\ lineage[fr[p].self].chain = <<"append", "__self__">>
        /\ fr[p].data.function = <<"list", "_", "1", ".", "append", ".", "__self__">>

\* the roots registered with runtime rt
RootsOf(rt) == {n \in Roots : nodes[n]._runtime = rt}

\* a step changes no history but that of the root of the node a handler is
\* running on
OnlyRootHistory ==
    \A rt \in DOMAIN runtimes : \A e \in DOMAIN runtimes[rt].probed_objects :
        runtimes'[rt].probed_objects[e] # runtimes[rt].probed_objects[e]
        => \E p \in Procs :
               /\ fr'[p].op = "call"
               /\ e = lineage[fr'[p].self].root
               /\ rt = nodes[e]._runtime

\* C9: every node has its root as entry and its root's runtime as runtime,
\* each runtime holds one history per root registered with it and none for a
\* derived node, and a call through any node changes its root's history only
C9_OneEntry ==
    /\ [](/\ \A n \in NodeIds :
                /\ nodes[n]._entry = lineage[n].root
                /\ nodes[n]._runtime = nodes[lineage[n].root]._runtime
          /\ \A rt \in DOMAIN runtimes :
                DOMAIN runtimes[rt].probed_objects = RootsOf(rt))
    /\ [][OnlyRootHistory]_vars

\* C9 witness: with two roots registered, a call through a node derived from
\* one of them has returned having added records to that root's history, and
\* the other root's history is as registered
C9_Witness ==
    \E p \in Procs : \E other \in Roots :
        /\ Returned(p) /\ Added(p) = 2
        /\ lineage[fr[p].self].chain # <<>>
        /\ other # lineage[fr[p].self].root
        /\ Len(History(other)) = 1


\* the kinds of the records of a history, in order
Kinds(history) == [i \in DOMAIN history |-> history[i].kind]

\* the oracle has so far allowed everything main() did
NeverDeviated ==
    /\ my_list \in NodeIds
    /\ Deviations(History(my_list)) = 0

\* C10: when main() is past line 14 and the oracle never asked for an
\* interrupt, a report or a stop, the four operations ran on the list itself,
\* length is six, each operation left a decision and an observed record (at
\* least six records in all), and report.md is as it was
C10_Scenario ==
    (mainpc >= 5 /\ NeverDeviated)
    => /\ store[nodes[my_list]._obj.ref] = <<1, 2, 3, 4, 5, 6>>
       /\ length = IntVal(6)
       /\ Len(History(my_list)) >= 6
       /\ SubSeq(Kinds(History(my_list)), 1, 9) =
              <<"init", "decision", "observed", "decision", "observed",
                "decision", "observed", "decision", "observed">>
       /\ report = <<>>

\* C10 witness: main() has printed the list, never deviated from, with
\* length bound to six
C10_Witness ==
    /\ mainpc = 6
    /\ NeverDeviated
    /\ length = IntVal(6)
    /\ Len(History(my_list)) = 11


\* an oracle consultation of the call failed before any outcome
FailedConsultation(p) ==
    Has(fr[p].trace, "decision_failed") \/ Has(fr[p].trace, "respond_failed")

\* C11: a call whose decision consultation or interrupt-response consultation
\* failed has raised to its caller, has not invoked the wrapped callable and
\* has left the wrapped value as it was
C11_NoOperation ==
    \A p \in Procs :
        (Returned(p) /\ FailedConsultation(p))
        => /\ IsExc(fr[p].result)
           /\ ~Has(fr[p].trace, "example") /\ ~Has(fr[p].trace, "real")
           /\ store[Ref(p)] = fr[p].pre


\* the last record of the history of the entry of node n
LastRecord(n) == History(n)[Len(History(n))]

\* C12: a call whose listen acknowledgement failed has raised the oracle's
\* failure to its caller, the operation's effect on the wrapped value is in
\* place, and the call has added its decision record to the history and no
\* observed record
C12_ListenFailure ==
    \A p \in Procs :
        (Returned(p) /\ Has(fr[p].trace, "listen_failed"))
        => /\ fr[p].result = Exc("OracleError")
           /\ Has(fr[p].trace, "real")
           /\ store[Ref(p)] = Direct(p).state
           /\ Added(p) = 1
           /\ LastRecord(fr[p].self).kind = "decision"
           /\ LastRecord(fr[p].self).event = fr[p].data

\* C12 witness: an allowed append whose listen acknowledgement failed has
\* raised, with the element appended
C12_Witness ==
    \E p \in Procs :
        /\ Returned(p) /\ Has(fr[p].trace, "listen_failed")
        /\ IsExc(fr[p].result)
        /\ Node(p)._obj.name = "append"
        /\ store[Ref(p)] = Append(fr[p].pre, fr[p].args[1])


\* C13: a call that could not write its audit record has not raised that
\* failure to its caller: it went on to the operation or to the substitute
C13_ReportNonFatal ==
    \A p \in Procs :
        (Returned(p) /\ Has(fr[p].trace, "report_failed"))
        => /\ fr[p].result # Exc("OSError")
           /\ \E e \in {"real", "real_failed", "example", "example_failed"} :
                  Has(fr[p].trace, e)


\* a consultation of the oracle is under way
Consulting(p) == fr[p].op = "call" /\ pc[p] \in {"ask", "respond", "listen"}

\* C14: a decision, interrupt-response or listen consultation made while
\* user_query.md is absent is under way with the empty text as instructions
C14_AbsentIsEmpty ==
    \A p \in Procs :
        (Consulting(p) /\ fr[p].readfile = <<>>) => fr[p].query = ""

\* C14 witness: with user_query.md removed since the decision, the listen
\* consultation of an allowed call is under way with empty instructions
C14_Witness ==
    \E p \in Procs :
        /\ pc[p] = "listen" /\ fr[p].op = "call"
        /\ fr[p].readfile = <<>> /\ fr[p].query = ""
        /\ epoch = 1


\* C15: when the invocation made for the example raised, the example is the
\* placeholder text, and unless the oracle then failed the call has returned
\* a substitute
C15_ExampleSwallowed ==
    \A p \in Procs :
        Has(fr[p].trace, "example_failed")
        => /\ fr[p].example = [t |-> "No example provided", v |-> <<>>]
           /\ (Returned(p) /\ ~Has(fr[p].trace, "respond_failed"))
              => (Substituted(p) /\ fr[p].result.t = "ref")

\* C15 witness: an interrupted call of the list itself, which is not callable,
\* has returned the substitute the oracle fabricated
C15_Witness ==
    \E p \in Procs :
        /\ Returned(p)
        /\ fr[p].trace = <<"decision", "example_failed", "respond">>
        /\ fr[p].result.t = "ref"
        /\ heap[fr[p].result.v[1]] \in SubstValues

\* the step on which a call obtains its substitute from the oracle
GetsReply(p) == Has(fr'[p].trace, "respond") /\ ~Has(fr[p].trace, "respond")

\* the step on which a call obtains its substitute from the cache
GetsHit(p) == Has(fr'[p].trace, "hit") /\ ~Has(fr[p].trace, "hit")

\* what an interrupted call hands its caller is a new object holding the value
\* the oracle fabricated, or a new object holding the value cached
SubstituteOnly ==
    \A p \in Procs :
        /\ GetsReply(p)
           => /\ fr'[p].result.t = "ref"
              /\ fr'[p].result.v[1] \notin DOMAIN heap
              /\ heap'[fr'[p].result.v[1]] \in SubstValues
        /\ GetsHit(p)
           => /\ fr'[p].result.t = "ref"
              /\ fr'[p].result.v[1] \notin DOMAIN heap
              /\ heap'[fr'[p].result.v[1]] =
                     heap[runtimes'[Rt(p)].response_cache[fr'[p].key]]

\* C16: the result of the invocation made for the example is never what an
\* interrupted call returns: it returns the oracle's substitute or a copy of
\* the cached one
C16_NeverExample ==
    /\ [](\A p \in Procs :
             Substituted(p) => (fr[p].result.t = "ref" /\ fr[p].result # fr[p].example))
    /\ [][SubstituteOnly]_vars

\* C16 witness: an interrupted __len__, whose example was the list's length,
\* has returned a copy of the cached substitute
C16_Witness ==
    \E p \in Procs :
        /\ Returned(p) /\ Has(fr[p].trace, "hit")
        /\ fr[p].example = IntVal(1)
        /\ fr[p].result.t = "ref"


\* how often event e occurs in trace tr
Count(tr, e) == Cardinality({i \in DOMAIN tr : tr[i] = e})

\* the call has its verdict and its stop mode (line 72 is behind it)
Resolved(p) ==
    /\ fr[p].op = "call" /\ Decided(p)
    /\ pc[p] # "report" /\ ~Has(fr[p].trace, "report_failed")

\* C17: a call told to stop whose stop mode resolved to pause-before has
\* paused once, with nothing but the decision and the audit record before the
\* pause, and never pauses after the outcome
C17_PauseBefore ==
    \A p \in Procs :
        (Resolved(p) /\ fr[p].verdict[3] /\ ~fr[p].stop_after)
        => /\ Count(fr[p].trace, "pause_before") = 1
           /\ \A i \in DOMAIN fr[p].trace :
                  fr[p].trace[i] = "pause_before"
                  => \A j \in 1..(i - 1) : fr[p].trace[j] \in {"decision", "report"}
           /\ ~Has(fr[p].trace, "pause_after")
           /\ pc[p] # "pause_after"

\* C17 witness: an allowed call has paused before the operation, then run it
\* and had it acknowledged, and has returned
C17_Witness ==
    \E p \in Procs :
        /\ Returned(p)
        /\ fr[p].trace = <<"decision", "pause_before", "real", "listen">>

\* the events that finalize an outcome
Outcomes == {"hit", "respond", "listen"}

Reported(p) == Len(report) - fr[p].rlen0

\* report.md is only ever extended
ReportGrows == IsPrefix(report, report')

C20_MalformedIsFalse ==
    \A p \in Procs :
        (fr[p].op = "call" /\ Decided(p))
        => \A i \in 1..3 : fr[p].nonbool[i] # "" => ~fr[p].verdict[i]


\* the decision and listen consultations the call has issued
DecisionsIssued(p) == Count(fr[p].trace, "decision") + Count(fr[p].trace, "decision_failed")
ListensIssued(p) == Count(fr[p].trace, "listen") + Count(fr[p].trace, "listen_failed")

\* a step changes a cache only by clearing it or by storing the substitute a
\* call just obtained from the oracle under that call's key
CacheOnlySubstitutes ==
    \A rt \in DOMAIN runtimes :
        LET old == runtimes[rt].response_cache
            new == runtimes'[rt].response_cache IN
        new # old
        => \/ new = <<>>
           \/ \E p \in Procs :
                 /\ GetsReply(p) /\ Rt(p) = rt
                 /\ DOMAIN new = DOMAIN old \cup {fr'[p].key}
                 /\ fr'[p].result = RefVal(new[fr'[p].key])
                 /\ \A k \in DOMAIN old \ {fr'[p].key} : new[k] = old[k]

\* C21 (as stated): every call that was not interrupted has issued one listen
\* consultation
C21_Original ==
    \A p \in Procs :
        (Returned(p) /\ Decided(p) /\ ~fr[p].verdict[1]) => ListensIssued(p) = 1

\* C21 (amended): every call issues one decision consultation, also when its
\* substitute comes from the cache; a call that was not interrupted and whose
\* operation completed issues one listen consultation; the cache serves
\* interrupted calls only and holds nothing but substitutes
C21_NeverCached ==
    /\ [](\A p \in Procs :
            /\ (fr[p].op = "call" /\ pc[p] # "ask") => DecisionsIssued(p) = 1
            /\ (Returned(p) /\ Has(fr[p].trace, "real")) => ListensIssued(p) = 1
            /\ Has(fr[p].trace, "hit")
               => (fr[p].verdict[1] /\ Has(fr[p].trace, "decision")
                   /\ ListensIssued(p) = 0))
    /\ [][CacheOnlySubstitutes]_vars

\* C21 witness: a call whose substitute came from the cache has returned,
\* having consulted the oracle for its decision
C21_Witness ==
    \E p \in Procs :
        /\ Returned(p) /\ Has(fr[p].trace, "hit")
        /\ DecisionsIssued(p) = 1
        /\ LastRecord(fr[p].self).kind = "decision"


(***************************************************************************)
(* Probed.__hash__ and Probed.__eq__.                                      *)
(***************************************************************************)
\* hash(s) of a string: distinct strings are taken to hash differently
hash(str) == <<"hash", str>>

\* Probed.__hash__
ProbedHash(n) == hash(nodes[n]._prefix)

\* a == b for wrapped values: lists compare by content, bound methods by the
\* object they are bound to and their name
ObjEq(a, b) ==
    IF a.kind = "list" /\ b.kind = "list" THEN store[a.ref] = store[b.ref]
    ELSE a = b

\* Probed.__eq__ against another Probed
ProbedEq(n, m) == ObjEq(nodes[n]._obj, nodes[m]._obj)

\* C22: two nodes that compare equal hash equal
C22_EqualHashEqual ==
    \A n, m \in NodeIds : ProbedEq(n, m) => ProbedHash(n) = ProbedHash(m)


\* C23: a substitute served from the cache while user_query.md exists was
\* fabricated under the content user_query.md has when it is served
C23_ServedUnderCurrent ==
    \A p \in Procs :
        (Returned(p) /\ Has(fr[p].trace, "hit") /\ fr[p].readfile # <<>>)
        => fr[p].under[1].file = fr[p].readfile


\* C24: with caching enabled, every substitute held in the cache was fabricated
\* under the content whose hash the engine has adopted (under an absent file
\* only while no hash has been adopted)
C24_CacheValid ==
    \A r \in DOMAIN runtimes :
        runtimes[r].enable_cache
        => \A k \in DOMAIN runtimes[r].response_cache :
               LET made == runtimes[r].made_under[k].file IN
               IF made = <<>> THEN runtimes[r].user_query_hash = <<>>
               ELSE runtimes[r].user_query_hash = md5(made[1])


\* C25: the step on which a call is served from the cache leaves every history
\* of the engine, the cache and the objects cached as they were, and the call
\* does not consult the oracle for a substitute
C25_HitFrame ==
    [][\A p \in Procs :
        GetsHit(p)
        => /\ runtimes'[Rt(p)].probed_objects = runtimes[Rt(p)].probed_objects
           /\ runtimes'[Rt(p)].response_cache = runtimes[Rt(p)].response_cache
           /\ \A k \in DOMAIN runtimes[Rt(p)].response_cache :
                  heap'[runtimes[Rt(p)].response_cache[k]]
                      = heap[runtimes[Rt(p)].response_cache[k]]
           /\ pc'[p] # "respond"
           /\ ~Has(fr'[p].trace, "respond")]_vars
C25_Witness ==
    \E p \in Procs :
        /\ Returned(p) /\ Has(fr[p].trace, "hit")
        /\ LastRecord(fr[p].self).kind = "decision"
        /\ Has(Kinds(History(fr[p].self)), "substituted")


\* a history that is the initialization record followed by groups of a decision
\* record and at most one outcome record, the outcome matching the verdict
WellShaped(h) ==
    /\ Len(h) >= 1 /\ h[1].kind = "init"
    /\ \A i \in 2..Len(h) :
        /\ h[i].kind \in {"decision", "substituted", "observed"}
        /\ h[i].kind = "substituted"
           => h[i - 1].kind = "decision" /\ h[i - 1].verdict[1]
        /\ h[i].kind = "observed"
           => h[i - 1].kind = "decision" /\ ~h[i - 1].verdict[1]

\* C26: every entry's history is well shaped, and the records a call has added
\* so far are its own decision record (its event, its verdict) followed by at
\* most one outcome record
C26_HistoryShape ==
    /\ \A rt \in DOMAIN runtimes : \A e \in DOMAIN runtimes[rt].probed_objects :
           WellShaped(runtimes[rt].probed_objects[e])
    /\ \A p \in Procs :
           fr[p].op = "call"
           => /\ Added(p) \in 0..2
              /\ Added(p) >= 1
                 => /\ Decided(p)
                    /\ History(fr[p].self)[fr[p].hlen0 + 1] =
                           DECISION_HISTORY_TEMPLATE(fr[p].data, fr[p].verdict[1],
                               fr[p].verdict[2], fr[p].verdict[3])
              /\ Added(p) = 2 => LastRecord(fr[p].self).kind # "decision"
              /\ Added(p) = 0 => ~Decided(p)
C26_Witness ==
    \E n \in DOMAIN nodes :
        /\ Has(Kinds(History(n)), "substituted")
        /\ Has(Kinds(History(n)), "observed")
        /\ \A p \in Procs : pc[p] \in {"idle", "done"}


\* thread p is inside ask_model_decisions, respond_event or listen_event for
\* entry e of runtime rt, between its read of the history and its write
Writing(p, rt, e) ==
    /\ fr[p].op = "call" /\ pc[p] \in {"ask", "respond", "listen"}
    /\ Rt(p) = rt /\ Entry(p) = e

\* C27: every change of an entry's history is the write-back of one of the
\* three consultations: the history that consultation read plus one record;
\* and a step that drops or replaces records is the write-back of a
\* consultation whose read is no longer the entry's history (another call on
\* the entry wrote in between)
C27_ReadConsultWrite ==
    [][\A rt \in DOMAIN runtimes : \A e \in DOMAIN runtimes[rt].probed_objects :
        LET h == runtimes[rt].probed_objects[e]
            h2 == runtimes'[rt].probed_objects[e] IN
        h2 # h
        => \E p \in Procs :
              /\ Writing(p, rt, e) /\ pc'[p] # pc[p]
              /\ Len(h2) = Len(fr[p].history) + 1
              /\ IsPrefix(fr[p].history, h2)
              /\ ~IsPrefix(h, h2) => fr[p].history # h]_vars
\* a call is in flight on an entry whose history is shorter than when the call
\* started
C27_Witness ==
    \E p \in Procs :
        /\ fr[p].op = "call" /\ pc[p] \notin {"idle", "done"}
        /\ Len(History(fr[p].self)) < fr[p].hlen0


\* how often the call of thread p has invoked the wrapped callable, as the
\* example probe or as the real operation (an invocation that raises counts)
Invocations(p) ==
    Count(fr[p].trace, "example") + Count(fr[p].trace, "example_failed")
        + Count(fr[p].trace, "real") + Count(fr[p].trace, "real_failed")

\* C28: a call whose decision consultation succeeded has, when it returns or
\* raises, invoked the wrapped callable exactly once: as the example probe if
\* the verdict was interrupt, as the real operation otherwise
C28_InvokedOnce ==
    \A p \in Procs :
        (Returned(p) /\ Has(fr[p].trace, "decision"))
        => /\ Invocations(p) = 1
           /\ fr[p].verdict[1]
              <=> (Has(fr[p].trace, "example") \/ Has(fr[p].trace, "example_failed"))


\* the step on which thread p enters __call__ and ask_model_decisions reads
\* user_query.md, and the step on which its decision consultation fails
StartsCall(p) == pc'[p] = "ask" /\ pc[p] # "ask"
DecisionFails(p) ==
    Has(fr'[p].trace, "decision_failed") /\ ~Has(fr[p].trace, "decision_failed")

\* C29: a call whose decision consultation failed has raised with nothing but
\* that failure behind it: no record added, the wrapped value as before, no
\* audit block, no pause.  Of the engine, the step that starts a call changes
\* at most the adopted hash and content, emptying the cache only along with a
\* new hash; the failing step changes nothing at all
C29_FailedDecision ==
    /\ [](\A p \in Procs :
            (Returned(p) /\ Has(fr[p].trace, "decision_failed"))
            => /\ IsExc(fr[p].result)
               /\ fr[p].trace = <<"decision_failed">>
               /\ ~Decided(p)
               /\ Added(p) = 0 /\ History(fr[p].self) = fr[p].history
               /\ store[Ref(p)] = fr[p].pre
               /\ Reported(p) = 0)
    /\ [][\A p \in Procs :
            /\ DecisionFails(p)
               => /\ runtimes' = runtimes /\ store' = store
                  /\ report' = report /\ heap' = heap
                  /\ pc'[p] = "done"
            /\ StartsCall(p)
               => /\ store' = store /\ report' = report /\ heap' = heap
                  /\ \A r \in DOMAIN runtimes :
                        /\ runtimes'[r].probed_objects = runtimes[r].probed_objects
                        /\ runtimes'[r].enable_cache = runtimes[r].enable_cache
                        /\ \/ runtimes'[r].response_cache = runtimes[r].response_cache
                           \/ /\ runtimes'[r].response_cache = <<>>
                              /\ runtimes'[r].user_query_hash # runtimes[r].user_query_hash
                              /\ r = Rt(p)']_vars
\* a decision fails in a call that adopted a new hash and emptied a cache that
\* held a substitute
C29_Witness ==
    \E p \in Procs :
        /\ Returned(p) /\ Has(fr[p].trace, "decision_failed")
        /\ fr[p].readfile # <<>>
        /\ runtimes[Rt(p)].enable_cache
        /\ runtimes[Rt(p)].response_cache = <<>>
        /\ runtimes[Rt(p)].served # <<>>


\* the step on which thread p accesses a non-reserved name on a node
Accesses(p) == fr'[p].op = "getattr" /\ pc'[p] = "done" /\ nops' = nops + 1

\* C30: an access changes nothing but the nodes: no history, cache or other
\* engine state, no wrapped value, no substitute, no audit block; it raises
\* and builds nothing, or hands back one new node.  Histories only change
\* inside an intercepted call.  Nodes reached from one root by the same names
\* agree on pathLabel, entry, runtime and wrapped attribute
C30_AccessOnlyBuilds ==
    /\ [][\A p \in Procs :
            Accesses(p)
            => /\ runtimes' = runtimes /\ store' = store /\ heap' = heap
               /\ report' = report /\ file' = file
               /\ IsPrefix(nodes, nodes')
               /\ IF IsExc(fr'[p].result) THEN nodes' = nodes
                  ELSE /\ Len(nodes') = Len(nodes) + 1
                       /\ fr'[p].result = RefVal(Len(nodes'))]_vars
    /\ [][\A rt \in DOMAIN runtimes : \A e \in DOMAIN runtimes[rt].probed_objects :
            runtimes'[rt].probed_objects[e] # runtimes[rt].probed_objects[e]
            => \E p \in Procs : fr[p].op = "call" /\ fr'[p].op = "call"]_vars
    /\ [](\A m, n \in NodeIds :
            (lineage[m].root = lineage[n].root /\ lineage[m].chain = lineage[n].chain)
            => /\ nodes[m]._prefix = nodes[n]._prefix
               /\ nodes[m]._entry = nodes[n]._entry
               /\ nodes[m]._runtime = nodes[n]._runtime
               /\ nodes[m]._obj = nodes[n]._obj)
\* the same name has been accessed twice on one node: two nodes stand for it
C30_Witness ==
    \E m, n \in NodeIds :
        /\ m # n
        /\ lineage[m].root = lineage[n].root
        /\ lineage[m].chain = lineage[n].chain
        /\ lineage[m].chain # <<>>
        /\ nodes[m]._prefix = nodes[n]._prefix

====
